---- MODULE Spec2Model ----
(***************************************************************************)
(* Model of the markdown build pipeline of the site:                       *)
(*   scripts/build-posts.js      parseFrontmatter, buildPosts              *)
(*   src/utils/posts.js          the data module buildPosts writes         *)
(*   scripts/generate-pages.js   getPosts, createHtmlPage, generatePages   *)
(* Texts are sequences of one-character strings, so that splitting,        *)
(* trimming and quote stripping are computed character by character, the   *)
(* way the JavaScript string methods compute them.                         *)
(***************************************************************************)
EXTENDS Integers, Sequences, FiniteSets, TLC

VARIABLES
    srcLines,   \* the lines the text handed to parseFrontmatter is made of
    input,      \* the text handed to parseFrontmatter (srcLines joined by "\n")
    parsed,     \* what parseFrontmatter returned for input
    pcParse,    \* "call" before parseFrontmatter(input) runs, "returned" after
    disk,       \* the posts directory: the text of each file, by file name
    today,      \* the build date, new Date().toISOString().split('T')[0]
    pc,         \* position of buildPosts
    files,      \* buildPosts: the sorted names of the markdown files
    posts,      \* buildPosts: the Post Records
    outFile,    \* the text of the data module src/utils/posts.js, <<>> before
                \* the file exists
    exitCode,   \* how the build-posts process ended: "none" while it runs
    rerun,      \* this run of build-posts is the second one
    prevFile,   \* outFile as it was when this run of build-posts started
    docFiles,   \* the output directory docs/: the text of each file, by path
    docDirs,    \* the directories that exist under docs/, by path
    gpc,        \* position of generatePages
    baseHtml,   \* generatePages: the text of docs/index.html
    gposts,     \* generatePages: the list getPosts returned
    gdone,      \* generatePages: the number of posts whose page is written
    gexit,      \* how the generate-pages process ended: "none" while it runs
    gwrote,     \* the paths this run of generatePages has written so far
    pageArgs,   \* the arguments of a call createHtmlPage(baseHtml, title, description)
    page,       \* what that call returned
    pcPage,     \* "call" before createHtmlPage runs, "returned" after
    appPosts,   \* App: posts, what getAllPosts() returned
    currentPage,    \* App: the state currentPage
    selectedPost,   \* App: the state selectedPost
    pcApp       \* App: the handler that ran last, "mounted" before any ran

parseVars == <<srcLines, input, parsed, pcParse>>
buildVars == <<disk, today, pc, files, posts, outFile, exitCode, rerun, prevFile>>
siteVars == <<docFiles, docDirs, gpc, baseHtml, gposts, gdone, gexit, gwrote>>
pageVars == <<pageArgs, page, pcPage>>
appVars == <<appPosts, currentPage, selectedPost, pcApp>>
vars == <<parseVars, buildVars, siteVars, pageVars, appVars>>

\* the variables of a part of the pipeline that a specification does not run
ParseIdle ==
    /\ srcLines = <<<<>>>> /\ input = <<>> /\ pcParse = "idle"
    /\ parsed = [frontmatter |-> <<>>, content |-> <<>>]

BuildIdle ==
    /\ disk = <<>> /\ today = <<>> /\ pc = "idle" /\ files = <<>> /\ posts = <<>>
    /\ outFile = <<>> /\ exitCode = "none" /\ rerun = FALSE /\ prevFile = <<>>

SiteIdle ==
    /\ docFiles = <<>> /\ docDirs = {} /\ gpc = "idle" /\ baseHtml = <<>>
    /\ gposts = <<>> /\ gdone = 0 /\ gexit = "none" /\ gwrote = {}

PageIdle ==
    /\ pageArgs = <<>> /\ page = <<>> /\ pcPage = "idle"

\* null, the value of selectedPost while no post is selected
Null == [null |-> TRUE]

AppIdle ==
    /\ appPosts = <<>> /\ currentPage = "idle" /\ selectedPost = Null
    /\ pcApp = "idle"

(***************************************************************************)
(* Characters and string primitives of the language runtime, as the code   *)
(* uses them.                                                              *)
(***************************************************************************)
NL == "\n"
COLON == ":"
DQ == "\""
SQ == "'"
DASH == "-"
SP == " "
TAB == "\t"

\* '---', the literal both comparisons of parseFrontmatter use
DELIM == <<DASH, DASH, DASH>>

\* the characters String.prototype.trim removes that the model's texts use
IsWs(c) == c \in {SP, NL, TAB, "\r"}

\* the character class ["'] of the regular expression
IsQuote(c) == c \in {DQ, SQ}

\* String.prototype.split(sep) for a one-character separator: always at
\* least one part; the empty text gives one empty part
Split(s, sep) ==
    LET RECURSIVE go(_)
        \* the parts of the text from position start on
        go(start) ==
            LET seps == {i \in start..Len(s) : s[i] = sep}
                first == CHOOSE i \in seps : \A j \in seps : i <= j
            IN IF seps = {} THEN <<SubSeq(s, start, Len(s))>>
               ELSE <<SubSeq(s, start, first - 1)>> \o go(first + 1)
    IN go(1)

\* Array.prototype.join(sep): the parts with sep between neighbours
Join(parts, sep) ==
    LET RECURSIVE go(_, _)
        go(i, acc) ==
            IF i > Len(parts) THEN acc
            ELSE go(i + 1, IF i = 1 THEN parts[1] ELSE acc \o <<sep>> \o parts[i])
    IN go(1, <<>>)

\* String.prototype.trim: whitespace removed from both ends
TrimStart(s) ==
    LET RECURSIVE go(_)
        go(i) == IF i <= Len(s) /\ IsWs(s[i]) THEN go(i + 1) ELSE i
    IN SubSeq(s, go(1), Len(s))

TrimEnd(s) ==
    LET RECURSIVE go(_)
        go(j) == IF j >= 1 /\ IsWs(s[j]) THEN go(j - 1) ELSE j
    IN SubSeq(s, 1, go(Len(s)))

\* String.prototype.trimStart in the place of trim
TrimMutLeftOnly(s) == TrimStart(s)

Trim(s) == TrimEnd(TrimStart(s))

\* Array.prototype.slice(from) / slice(from, to) on 0-based indices
SliceFrom(a, from) == SubSeq(a, from + 1, Len(a))
Slice(a, from, to) == SubSeq(a, from + 1, to)

(***************************************************************************)
(* parseFrontmatter (scripts/build-posts.js).  The frontmatter object is   *)
(* a sequence of [key, value] entries in insertion order, the order in     *)
(* which the runtime enumerates string keys.  The texts of the model have  *)
(* no key that is an array index.                                          *)
(***************************************************************************)
EmptyObject == <<>>

\* '__proto__': on an object created by {} this name is the accessor
\* inherited from Object.prototype, not a property of the object
PROTO == <<"_", "_", "p", "r", "o", "t", "o", "_", "_">>

HasKey(obj, k) == \E i \in 1..Len(obj) : obj[i].key = k

\* obj[k] for a property obj has
Get(obj, k) == obj[CHOOSE i \in 1..Len(obj) : obj[i].key = k].value

\* obj[k] = v for a string v: an existing property keeps its place and
\* takes the new value, a new one is added last; the assignment to
\* '__proto__' calls the inherited setter, which ignores a string and
\* leaves the object as it was
Set(obj, k, v) ==
    IF k = PROTO THEN obj
    ELSE IF HasKey(obj, k)
    THEN [i \in 1..Len(obj) |->
            IF obj[i].key = k THEN [key |-> k, value |-> v] ELSE obj[i]]
    ELSE Append(obj, [key |-> k, value |-> v])

\* value.replace(/^["']|["']$/g, ''): a quote at the start is removed and,
\* independently, a quote at the end of what is left
StripQuotes(s) ==
    LET a == IF Len(s) > 0 /\ IsQuote(s[1]) THEN Tail(s) ELSE s
    IN IF Len(a) > 0 /\ IsQuote(a[Len(a)]) THEN SubSeq(a, 1, Len(a) - 1) ELSE a

\* the callback written with `const [key, value] = line.split(':')`
LineEntryMutFirstPart(frontmatter, line) ==
    LET parts == Split(line, COLON)
        key == parts[1]
        valueParts == Tail(parts)
    IN IF key # <<>> /\ Len(valueParts) > 0
       THEN Set(frontmatter, Trim(key), StripQuotes(Trim(valueParts[1])))
       ELSE frontmatter

\* the callback of frontmatterLines.forEach
LineEntry(frontmatter, line) ==
    LET parts == Split(line, COLON)
        key == parts[1]
        valueParts == Tail(parts)
    IN IF key # <<>> /\ Len(valueParts) > 0
       THEN Set(frontmatter, Trim(key), StripQuotes(Trim(Join(valueParts, COLON))))
       ELSE frontmatter

\* frontmatterLines.forEach(...) starting from the empty object
ReadEntries(frontmatterLines) ==
    LET RECURSIVE go(_, _)
        go(i, fm) ==
            IF i > Len(frontmatterLines) THEN fm
            ELSE go(i + 1, LineEntry(fm, frontmatterLines[i]))
    IN go(1, EmptyObject)

\* the loop started at line 0 instead of line 1
FindEndMutFromZero(lines) ==
    LET RECURSIVE go(_)
        go(i) == IF i >= Len(lines) THEN -1
                 ELSE IF lines[i + 1] = DELIM THEN i
                 ELSE go(i + 1)
    IN go(0)

\* the loop that sets endIndex: the 0-based index of the first line after
\* line 0 that is '---', or -1
FindEnd(lines) ==
    LET RECURSIVE go(_)
        go(i) == IF i >= Len(lines) THEN -1
                 ELSE IF lines[i + 1] = DELIM THEN i
                 ELSE go(i + 1)
    IN go(1)

\* the early return with the content trimmed
NoFrontmatterMutTrimmed(content) ==
    [frontmatter |-> EmptyObject, content |-> Trim(content)]

\* return { frontmatter: {}, content }
NoFrontmatter(content) == [frontmatter |-> EmptyObject, content |-> content]

parseFrontmatter(content) ==
    LET lines == Split(content, NL)
        endIndex == FindEnd(lines)
    IN IF lines[1] # DELIM THEN NoFrontmatter(content)
       ELSE IF endIndex = -1 THEN NoFrontmatter(content)
       ELSE [frontmatter |-> ReadEntries(Slice(lines, 1, endIndex)),
             content |-> Trim(Join(SliceFrom(lines, endIndex + 1), NL))]

(***************************************************************************)
(* Inputs of the parser: texts of 1..MaxLines lines taken from a pool that *)
(* has the delimiter, near-delimiters, key: value lines with every kind of *)
(* quoting and spacing, lines with several colons and lines with none.     *)
(***************************************************************************)
MaxLines == 4

ParseLinePool ==
    { DELIM,                                       \* ---
      <<DASH, DASH, DASH, SP>>,                    \* "--- " (not the marker)
      <<>>,                                        \* blank line
      <<SP, "t", SP>>,                             \* " t "  (no colon)
      <<"a", COLON, SP, "x">>,                     \* a: x
      <<SP, "a", SP, COLON, DQ, "y", DQ, SP>>,     \*  a :"y"
      <<"a", COLON, SQ, "z">>,                     \* a:'z
      <<"b", COLON, DQ, "q", SQ>>,                 \* b:"q'
      <<"b", COLON, "p", COLON, "q">>,             \* b:p:q
      <<"a", COLON, SQ, SQ, "w", SQ, SQ>>,         \* a:''w''
      <<COLON, "v">>,                              \* :v  (empty key)
      PROTO \o <<COLON, SP, "x">> }                 \* __proto__: x

SeqsUpTo(S, n) == UNION { [1..k -> S] : k \in 1..n }

\* the value of parsed before the call returns
NoResult == [frontmatter |-> EmptyObject, content |-> <<>>]

InitParse ==
    /\ srcLines \in SeqsUpTo(ParseLinePool, MaxLines)
    /\ input = Join(srcLines, NL)
    /\ parsed = NoResult
    /\ pcParse = "call"
    /\ BuildIdle /\ SiteIdle /\ PageIdle /\ AppIdle

\* one call parseFrontmatter(input)
CallParse ==
    /\ pcParse = "call"
    /\ parsed' = parseFrontmatter(input)
    /\ pcParse' = "returned"
    /\ UNCHANGED <<srcLines, input>>
    /\ UNCHANGED <<buildVars, siteVars, pageVars, appVars>>

NextParse == CallParse

SpecParse == InitParse /\ [][NextParse]_vars

(***************************************************************************)
(* Vocabulary of the claims about parseFrontmatter, stated on the text and *)
(* on the lines it was made of, not through the parser's own helpers.      *)
(***************************************************************************)
Returned == pcParse = "returned"

\* the text before the first newline
FirstLineOf(s) ==
    IF \E i \in 1..Len(s) : s[i] = NL
    THEN SubSeq(s, 1, (CHOOSE i \in 1..Len(s) :
                          s[i] = NL /\ \A j \in 1..(i - 1) : s[j] # NL) - 1)
    ELSE s

\* a line of s that is exactly '---' starts at position p
DelimLineAt(s, p) ==
    /\ p + 2 <= Len(s)
    /\ SubSeq(s, p, p + 2) = DELIM
    /\ (p = 1 \/ s[p - 1] = NL)
    /\ (p + 2 = Len(s) \/ s[p + 3] = NL)

HasClosingDelim(s) == \E p \in 2..Len(s) : DelimLineAt(s, p)

\* opening and closing delimiter present
WellFormed ==
    /\ srcLines[1] = DELIM
    /\ \E e \in 2..Len(srcLines) : srcLines[e] = DELIM

\* index in srcLines of the closing delimiter (the first '---' after line 1)
ClosingLine ==
    CHOOSE e \in 2..Len(srcLines) :
        srcLines[e] = DELIM /\ \A j \in 2..(e - 1) : srcLines[j] # DELIM

\* indices in srcLines of the lines between the two delimiters
Region == 2..(ClosingLine - 1)

HasColon(l) == \E i \in 1..Len(l) : l[i] = COLON
FirstColon(l) ==
    CHOOSE i \in 1..Len(l) : l[i] = COLON /\ \A j \in 1..(i - 1) : l[j] # COLON
KeyText(l) == SubSeq(l, 1, FirstColon(l) - 1)
ValueText(l) == SubSeq(l, FirstColon(l) + 1, Len(l))
IsKeyValueLine(l) == HasColon(l) /\ KeyText(l) # <<>>

NoEdgeWs(t) == t = <<>> \/ (~IsWs(t[1]) /\ ~IsWs(t[Len(t)]))

\* t is s with the whitespace at its two ends removed
IsTrimOf(t, s) ==
    /\ NoEdgeWs(t)
    /\ \E i \in 1..(Len(s) + 1) :
          /\ \A k \in 1..(i - 1) : IsWs(s[k])
          /\ i + Len(t) - 1 <= Len(s)
          /\ t = SubSeq(s, i, i + Len(t) - 1)
          /\ \A k \in (i + Len(t))..Len(s) : IsWs(s[k])

TrimOf(s) ==
    CHOOSE t \in {SubSeq(s, i, j) : i \in 1..(Len(s) + 1), j \in 0..Len(s)} :
        IsTrimOf(t, s)

QuotedPair(t) == Len(t) >= 2 /\ IsQuote(t[1]) /\ IsQuote(t[Len(t)])
MatchingPair(t) == QuotedPair(t) /\ t[1] = t[Len(t)]
Inner(t) == SubSeq(t, 2, Len(t) - 1)

\* v is t with its surrounding quotes stripped: the pair is gone when t is
\* wrapped in a matching pair, and nothing but one quote per end is removed
IsQuoteStripOf(v, t) ==
    IF MatchingPair(t) THEN v = Inner(t)
    ELSE \E a \in {0, 1} : \E b \in {0, 1} :
            /\ a + b <= Len(t)
            /\ v = SubSeq(t, 1 + a, Len(t) - b)
            /\ (a = 1 => IsQuote(t[1]))
            /\ (b = 1 => IsQuote(t[Len(t)]))

\* the mapping has an entry for line l: its key trimmed, its value trimmed
\* and stripped of surrounding quotes
HasEntryFor(fm, l) ==
    \E i \in 1..Len(fm) :
        /\ IsTrimOf(fm[i].key, KeyText(l))
        /\ IsQuoteStripOf(fm[i].value, TrimOf(ValueText(l)))

\* no later line of the region has the same (trimmed) key
LastWithKey(r) ==
    \A q \in Region :
        (q > r /\ IsKeyValueLine(srcLines[q]))
            => TrimOf(KeyText(srcLines[q])) # TrimOf(KeyText(srcLines[r]))

\* C1: a text whose first line is not exactly '---' comes back untouched as
\* the body, with an empty mapping.
C1_NoOpeningDelimiter ==
    (Returned /\ FirstLineOf(input) # DELIM)
        => (parsed.frontmatter = <<>> /\ parsed.content = input)

C1_Witness ==
    /\ Returned
    /\ FirstLineOf(input) # DELIM
    /\ Len(input) > 0 /\ IsWs(input[1]) /\ IsWs(input[Len(input)])
    /\ HasClosingDelim(input)
    /\ parsed.content = input

\* C2: an opening '---' with no later line that is exactly '---' is treated
\* as a text without a block: empty mapping, the full text as body.
C2_NoClosingDelimiter ==
    (Returned /\ FirstLineOf(input) = DELIM /\ ~HasClosingDelim(input))
        => (parsed.frontmatter = <<>> /\ parsed.content = input)

C2_Witness ==
    /\ Returned
    /\ FirstLineOf(input) = DELIM
    /\ ~HasClosingDelim(input)
    /\ \E r \in 2..Len(srcLines) : IsKeyValueLine(srcLines[r])
    /\ \E r \in 2..Len(srcLines) : srcLines[r] = <<DASH, DASH, DASH, SP>>
    /\ parsed.frontmatter = <<>>

\* C3 as stated: every key: value line between the delimiters has its own
\* entry in the mapping (trimmed key, value trimmed and stripped of quotes).
C3_EveryLineIsAnEntry ==
    (Returned /\ WellFormed)
        => \A r \in Region :
              IsKeyValueLine(srcLines[r]) => HasEntryFor(parsed.frontmatter, srcLines[r])

\* the value the claim C4 gives for a trimmed value text t
PairStripped(t) == IF MatchingPair(t) THEN Inner(t) ELSE t

\* C4 as stated: a value loses one leading and one trailing quote only when
\* the two form a matching pair; a quote on one side only, or a different
\* quote on each side, stays.
C4_OnlyMatchingPairStripped ==
    (Returned /\ WellFormed)
        => \A r \in Region :
              (IsKeyValueLine(srcLines[r]) /\ LastWithKey(r))
                  => \A i \in 1..Len(parsed.frontmatter) :
                        parsed.frontmatter[i].key = TrimOf(KeyText(srcLines[r]))
                            => parsed.frontmatter[i].value
                                   = PairStripped(TrimOf(ValueText(srcLines[r])))

\* the lines between the delimiters, and the mapping read from the first k
\* of them
RegionLines == SubSeq(srcLines, 2, ClosingLine - 1)
MappingAfter(k) ==
    parseFrontmatter(
        Join(<<DELIM>> \o SubSeq(RegionLines, 1, k) \o <<DELIM>>, NL)).frontmatter

Entries(fm) == {fm[i] : i \in 1..Len(fm)}

\* C5: each line of the block is split on its first colon only: the entry
\* a key: value line sets has the text before the first colon as its key
\* and everything after it, later colons included, as its value, and no
\* entry but that one differs; a line with no colon leaves the mapping as
\* it was.
C5_SplitOnFirstColon ==
    (Returned /\ WellFormed)
        => /\ parsed.frontmatter = MappingAfter(Len(RegionLines))
           /\ \A k \in 1..Len(RegionLines) :
                 LET l == RegionLines[k]
                     before == MappingAfter(k - 1)
                     after == MappingAfter(k)
                 IN IF ~HasColon(l) THEN after = before
                    ELSE IsKeyValueLine(l)
                           => /\ after # before => HasEntryFor(after, l)
                              /\ \A e \in Entries(after) :
                                    e.key = TrimOf(KeyText(l))
                                        => IsQuoteStripOf(e.value, TrimOf(ValueText(l)))
                              /\ \A e \in Entries(before) :
                                    e.key # TrimOf(KeyText(l)) => e \in Entries(after)
                              /\ \A e \in Entries(after) :
                                    e.key # TrimOf(KeyText(l)) => e \in Entries(before)

C5_Witness ==
    /\ Returned
    /\ WellFormed
    /\ \E r \in Region : \E q \in Region :
          /\ r < q
          /\ IsKeyValueLine(srcLines[r])
          /\ HasColon(ValueText(srcLines[r]))
          /\ ~HasColon(srcLines[q])
          /\ \E i \in 1..Len(parsed.frontmatter) :
                parsed.frontmatter[i].value = ValueText(srcLines[r])

\* the last key: value line of the block whose trimmed key is k
LastLineWithKey(k) ==
    CHOOSE r \in Region :
        /\ IsKeyValueLine(srcLines[r])
        /\ TrimOf(KeyText(srcLines[r])) = k
        /\ LastWithKey(r)

\* C6 as stated: a key that several lines of the block set has exactly one
\* entry in the mapping, holding the value of the last of those lines.
C6_LastDuplicateWins ==
    (Returned /\ WellFormed)
        => \A r \in Region : \A q \in Region :
              (/\ r < q
               /\ IsKeyValueLine(srcLines[r]) /\ IsKeyValueLine(srcLines[q])
               /\ TrimOf(KeyText(srcLines[r])) = TrimOf(KeyText(srcLines[q])))
                  => LET k == TrimOf(KeyText(srcLines[r]))
                         at == {i \in 1..Len(parsed.frontmatter) :
                                   parsed.frontmatter[i].key = k}
                     IN /\ Cardinality(at) = 1
                        /\ \A i \in at :
                              IsQuoteStripOf(parsed.frontmatter[i].value,
                                  TrimOf(ValueText(srcLines[LastLineWithKey(k)])))

(***************************************************************************)
(* buildPosts (scripts/build-posts.js): list the directory, keep the       *)
(* markdown files, sort their names, turn each file into a Post Record,    *)
(* sort the records by date and write the data module.                     *)
(***************************************************************************)
\* the characters of the model's texts in increasing code-unit order
CodeUnits ==
    <<TAB, NL, SP, DQ, SQ, DASH, ".", "0", "1", "2", "3", "4", "5", "6", "7",
      "8", "9", COLON, "E", "Q", "T", "a", "b", "c", "d", "e", "h", "i", "l",
      "m", "n", "o", "p", "r", "s", "t", "x", "y">>
Code(c) == CHOOSE i \in 1..Len(CodeUnits) : CodeUnits[i] = c

Min(a, b) == IF a <= b THEN a ELSE b

\* a < b for strings: the comparison Array.prototype.sort() makes by default
StrLess(a, b) ==
    \E i \in 1..(Min(Len(a), Len(b)) + 1) :
        /\ \A j \in 1..(i - 1) : a[j] = b[j]
        /\ IF i > Len(a) THEN i <= Len(b)
           ELSE i <= Len(b) /\ Code(a[i]) < Code(b[i])

Perms(n) == {f \in [1..n -> 1..n] : \A i, j \in 1..n : f[i] = f[j] => i = j}

\* names.sort(): the distinct names in ascending order
SortStrings(names) ==
    LET p == CHOOSE f \in Perms(Len(names)) :
                 \A i, j \in 1..Len(names) :
                     i < j => StrLess(names[f[i]], names[f[j]])
    IN [i \in 1..Len(names) |-> names[p[i]]]

\* '.md'
MD == <<".", "m", "d">>

\* String.prototype.endsWith
EndsWith(s, suffix) ==
    Len(suffix) <= Len(s) /\ SubSeq(s, Len(s) - Len(suffix) + 1, Len(s)) = suffix

\* Array.prototype.filter(file => file.endsWith('.md'))
FilterMd(names) ==
    LET RECURSIVE go(_, _)
        go(i, acc) ==
            IF i > Len(names) THEN acc
            ELSE go(i + 1, IF EndsWith(names[i], MD) THEN Append(acc, names[i]) ELSE acc)
    IN go(1, <<>>)

\* path.basename(file): the extension is not taken off
BasenameMutKeepExt(file, ext) == file

\* path.basename(file, ext) for a name without directory part
Basename(file, ext) ==
    IF file = ext THEN <<>>
    ELSE IF EndsWith(file, ext) THEN SubSeq(file, 1, Len(file) - Len(ext))
    ELSE file

K_title == <<"t", "i", "t", "l", "e">>
K_date == <<"d", "a", "t", "e">>
K_excerpt == <<"e", "x", "c", "e", "r", "p", "t">>

\* obj[k] || other: other when the property is absent or the empty string
OrElse(obj, k, other) ==
    IF HasKey(obj, k) /\ Get(obj, k) # <<>> THEN Get(obj, k) ELSE other

ExcerptLen == 120
ELLIPSIS == <<".", ".", ".">>

\* the default excerpt with the suffix added only to a line that was cut
DefaultExcerptMutOnlyWhenCut(content) ==
    LET first == Split(content, NL)[1]
    IN IF Len(first) > ExcerptLen
       THEN SubSeq(first, 1, ExcerptLen) \o ELLIPSIS
       ELSE first

\* content.split('\n')[0].slice(0, 120) + '...'
DefaultExcerpt(content) ==
    LET first == Split(content, NL)[1]
    IN SubSeq(first, 1, Min(ExcerptLen, Len(first))) \o ELLIPSIS

\* frontmatter.title ?? slug
TitleOfMutWhenKeyPresent(frontmatter, slug) ==
    IF HasKey(frontmatter, K_title) THEN Get(frontmatter, K_title) ELSE slug

\* frontmatter.title || slug
TitleOf(frontmatter, slug) == OrElse(frontmatter, K_title, slug)

\* the callback of files.map: the Post Record of one file
PostOf(file, fileContent, now) ==
    LET r == parseFrontmatter(fileContent)
        slug == Basename(file, MD)
    IN [slug |-> slug,
        title |-> TitleOf(r.frontmatter, slug),
        date |-> OrElse(r.frontmatter, K_date, now),
        excerpt |-> OrElse(r.frontmatter, K_excerpt, DefaultExcerpt(r.content)),
        content |-> r.content,
        frontmatter |-> r.frontmatter]

(***************************************************************************)
(* new Date(text) for the two kinds of date text the model has: a date in  *)
(* the form YYYY-MM-DD, whose time value is midnight UTC of that day, and  *)
(* text that is no date at all, whose time value is NaN.                   *)
(***************************************************************************)
IsDigit(c) == c \in {"0", "1", "2", "3", "4", "5", "6", "7", "8", "9"}
DigitValue(c) ==
    CASE c = "0" -> 0 [] c = "1" -> 1 [] c = "2" -> 2 [] c = "3" -> 3 [] c = "4" -> 4
      [] c = "5" -> 5 [] c = "6" -> 6 [] c = "7" -> 7 [] c = "8" -> 8 [] c = "9" -> 9

Number(s) ==
    LET RECURSIVE go(_, _)
        go(i, acc) == IF i > Len(s) THEN acc ELSE go(i + 1, 10 * acc + DigitValue(s[i]))
    IN go(1, 0)

IsLeap(y) == (y % 4 = 0 /\ y % 100 # 0) \/ y % 400 = 0
DaysInMonth(y, m) ==
    IF m = 2 THEN (IF IsLeap(y) THEN 29 ELSE 28)
    ELSE IF m \in {4, 6, 9, 11} THEN 30 ELSE 31

\* the date text names a day: new Date(text) is not Invalid Date
IsValidDate(s) ==
    /\ Len(s) = 10
    /\ \A i \in {1, 2, 3, 4, 6, 7, 9, 10} : IsDigit(s[i])
    /\ s[5] = DASH /\ s[8] = DASH
    /\ Number(SubSeq(s, 6, 7)) \in 1..12
    /\ Number(SubSeq(s, 9, 10)) \in
           1..DaysInMonth(Number(SubSeq(s, 1, 4)), Number(SubSeq(s, 6, 7)))

\* days from 1970-01-01 to the day y-m-d
DaysFromCivil(y, m, d) ==
    LET yy == IF m <= 2 THEN y - 1 ELSE y
        era == yy \div 400
        yoe == yy - era * 400
        mp == IF m > 2 THEN m - 3 ELSE m + 9
        doy == (153 * mp + 2) \div 5 + d - 1
        doe == yoe * 365 + yoe \div 4 - yoe \div 100 + doy
    IN era * 146097 + doe - 719468

\* the time value of new Date(s) for a valid date text, counted in days:
\* the time value in milliseconds is 86400000 times this, a factor that
\* changes neither the sign of a difference nor whether it is zero
TimeValue(s) ==
    DaysFromCivil(Number(SubSeq(s, 1, 4)), Number(SubSeq(s, 6, 7)),
                  Number(SubSeq(s, 9, 10)))

\* (a, b) => new Date(b.date) - new Date(a.date), as Array.prototype.sort
\* reads it: a NaN result counts as +0
CompareFn(a, b) ==
    IF IsValidDate(a.date) /\ IsValidDate(b.date)
    THEN TimeValue(b.date) - TimeValue(a.date)
    ELSE 0

\* the comparator's value for every pair of elements of list:
\* CompareMatrix(list)[i][j] is CompareFn(list[i], list[j])
CompareMatrix(list) ==
    LET RECURSIVE row(_, _, _)
        row(i, j, acc) ==
            IF j > Len(list) THEN acc
            ELSE row(i, j + 1, Append(acc, CompareFn(list[i], list[j])))
        RECURSIVE rows(_, _)
        rows(i, acc) ==
            IF i > Len(list) THEN acc
            ELSE rows(i + 1, Append(acc, row(i, 1, <<>>)))
    IN rows(1, <<>>)

\* the comparator is a consistent comparator for the elements compared in m
Consistent(m) ==
    \A a, b, c \in 1..Len(m) :
        /\ (m[a][b] = 0 /\ m[b][c] = 0) => m[a][c] = 0
        /\ (m[a][b] < 0 /\ m[b][c] < 0) => m[a][c] < 0
        /\ (m[a][b] > 0 /\ m[b][c] > 0) => m[a][c] > 0
        /\ (m[a][b] = 0) = (m[b][a] = 0)

Permuted(list, f) == [i \in 1..Len(list) |-> list[f[i]]]

\* the orders posts.sort(compareFn) may leave the list in: the stable
\* sorted order when the comparator is consistent, and otherwise an order
\* the language leaves to the implementation
SortOutcomes(list) ==
    LET m == CompareMatrix(list)
    IN IF Consistent(m)
       THEN { Permuted(list, f) : f \in
                { g \in Perms(Len(list)) :
                    \A i, j \in 1..Len(list) :
                        i < j => \/ m[g[i]][g[j]] < 0
                                 \/ (m[g[i]][g[j]] = 0 /\ g[i] < g[j]) } }
       ELSE { Permuted(list, f) : f \in Perms(Len(list)) }

(***************************************************************************)
(* The data module src/utils/posts.js as text: what the template of        *)
(* buildPosts writes (JSON.stringify(posts, null, 2) between a fixed head  *)
(* and a fixed tail), and what a reader of that text gets back.            *)
(***************************************************************************)
BS == "\\"
CR == "\r"
COMMA == ","

K_slug == <<"s", "l", "u", "g">>
K_content == <<"c", "o", "n", "t", "e", "n", "t">>
K_frontmatter == <<"f", "r", "o", "n", "t", "m", "a", "t", "t", "e", "r">>

\* the characters JSON.stringify writes as a two-character escape, among
\* the characters the model's texts use
IsEscaped(c) == c \in {DQ, BS, NL, TAB, CR}

\* the second character of the escape of c
EscapeLetter(c) ==
    CASE c = NL -> "n" [] c = TAB -> "t" [] c = CR -> "r" [] OTHER -> c

\* the character an escape with second character c stands for
EscapedChar(c) ==
    CASE c = "n" -> NL [] c = "t" -> TAB [] c = "r" -> CR [] OTHER -> c

\* the literal written with every escape but the one of the backslash
QuoteMutNoBackslash(s) ==
    LET slots == [j \in 1..(2 * Len(s)) |->
                    LET c == s[(j + 1) \div 2]
                    IN IF j % 2 = 1
                       THEN (IF IsEscaped(c) /\ c # BS THEN BS ELSE "")
                       ELSE EscapeLetter(c)]
    IN <<DQ>> \o SelectSeq(slots, LAMBDA x : x # "") \o <<DQ>>

\* JSON.stringify(s) for a string s: the JSON string literal of s
Quote(s) ==
    LET slots == [j \in 1..(2 * Len(s)) |->
                    LET c == s[(j + 1) \div 2]
                    IN IF j % 2 = 1 THEN (IF IsEscaped(c) THEN BS ELSE "")
                       ELSE EscapeLetter(c)]
    IN <<DQ>> \o SelectSeq(slots, LAMBDA x : x # "") \o <<DQ>>

\* the number of backslashes in s directly before position i
BackslashesBefore(s, i) ==
    LET RECURSIVE go(_)
        go(j) == IF j >= 1 /\ s[j] = BS THEN go(j - 1) ELSE j
    IN (i - 1) - go(i - 1)

\* the character of s at position i is the second character of an escape
InEscape(s, i) == BackslashesBefore(s, i) % 2 = 1

\* the position of the quote that closes the string literal s starts with
LiteralEnd(s) ==
    LET ends == {i \in 2..Len(s) : s[i] = DQ /\ ~InEscape(s, i)}
    IN CHOOSE i \in ends : \A j \in ends : i <= j

\* the string a string literal stands for (the quotes at lit[1] and at its
\* end excluded)
Unquote(lit) ==
    LET s == SubSeq(lit, 2, Len(lit) - 1)
        marks == [i \in 1..Len(s) |->
                    IF InEscape(s, i) THEN EscapedChar(s[i])
                    ELSE IF s[i] = BS THEN "" ELSE s[i]]
    IN SelectSeq(marks, LAMBDA x : x # "")

Indent(n) == [i \in 1..n |-> SP]

\* the items of a list of lists, in order
Flatten(lists) ==
    LET RECURSIVE go(_, _)
        go(i, acc) == IF i > Len(lists) THEN acc ELSE go(i + 1, acc \o lists[i])
    IN go(1, <<>>)

\* one line `"key": value` of an object, at the given indentation
MemberLine(ind, key, valueText, comma) ==
    Indent(ind) \o Quote(key) \o <<COLON, SP>> \o valueText
        \o (IF comma THEN <<COMMA>> ELSE <<>>)

\* the lines of the value of the property frontmatter; the first goes on
\* the line of the property name
FrontmatterLines(fm) ==
    IF fm = EmptyObject THEN <<<<"{", "}">>>>
    ELSE <<<<"{">>>>
         \o [i \in 1..Len(fm) |->
               MemberLine(6, fm[i].key, Quote(fm[i].value), i < Len(fm))]
         \o <<Indent(4) \o <<"}">>>>

\* the lines of one Post Record, its properties in the order of the
\* object literal of buildPosts
RecordLines(p, last) ==
    LET fmLines == FrontmatterLines(p.frontmatter)
    IN <<Indent(2) \o <<"{">>,
         MemberLine(4, K_slug, Quote(p.slug), TRUE),
         MemberLine(4, K_title, Quote(p.title), TRUE),
         MemberLine(4, K_date, Quote(p.date), TRUE),
         MemberLine(4, K_excerpt, Quote(p.excerpt), TRUE),
         MemberLine(4, K_content, Quote(p.content), TRUE),
         MemberLine(4, K_frontmatter, fmLines[1], FALSE)>>
       \o Tail(fmLines)
       \o <<Indent(2) \o <<"}">> \o (IF last THEN <<>> ELSE <<COMMA>>)>>

\* JSON.stringify(list, null, 2)
Stringify(list) ==
    IF list = <<>> THEN <<"[", "]">>
    ELSE Join(<<<<"[">>>>
              \o Flatten([i \in 1..Len(list) |-> RecordLines(list[i], i = Len(list))])
              \o <<<<"]">>>>, NL)

\* the template of the data module before ${JSON.stringify(posts, null, 2)}
OutputHead ==
    <<"/", "/", SP, "A", "u", "t", "o", DASH, "g", "e", "n", "e", "r", "a",
      "t", "e", "d", SP, "f", "i", "l", "e", SP, DASH, SP, "d", "o", SP,
      "n", "o", "t", SP, "e", "d", "i", "t", SP, "m", "a", "n", "u", "a",
      "l", "l", "y", NL, "/", "/", SP, "R", "u", "n", SP, SQ, "n", "p",
      "m", SP, "r", "u", "n", SP, "b", "u", "i", "l", "d", DASH, "p", "o",
      "s", "t", "s", SQ, SP, "t", "o", SP, "r", "e", "g", "e", "n", "e",
      "r", "a", "t", "e", NL, NL, "e", "x", "p", "o", "r", "t", SP, "c",
      "o", "n", "s", "t", SP, "p", "o", "s", "t", "s", SP, "=", SP>>

\* the template of the data module after it
OutputTail ==
    <<NL, NL, "e", "x", "p", "o", "r", "t", SP, "f", "u", "n", "c", "t",
      "i", "o", "n", SP, "g", "e", "t", "P", "o", "s", "t", "(", "s", "l",
      "u", "g", ")", SP, "{", NL, SP, SP, "r", "e", "t", "u", "r", "n", SP,
      "p", "o", "s", "t", "s", ".", "f", "i", "n", "d", "(", "p", "o", "s",
      "t", SP, "=", ">", SP, "p", "o", "s", "t", ".", "s", "l", "u", "g",
      SP, "=", "=", "=", SP, "s", "l", "u", "g", ")", NL, "}", NL, NL, "e",
      "x", "p", "o", "r", "t", SP, "f", "u", "n", "c", "t", "i", "o", "n",
      SP, "g", "e", "t", "A", "l", "l", "P", "o", "s", "t", "s", "(", ")",
      SP, "{", NL, SP, SP, "r", "e", "t", "u", "r", "n", SP, "p", "o", "s",
      "t", "s", NL, "}", NL>>

\* the text buildPosts writes for the list
OutputText(list) == OutputHead \o Stringify(list) \o OutputTail

\* 'export const posts = ', the text the pattern of getPosts starts with
PostsDecl ==
    <<"e", "x", "p", "o", "r", "t", SP, "c", "o", "n", "s", "t", SP, "p",
      "o", "s", "t", "s", SP, "=", SP>>

\* the first position at or after from where pat occurs in text, 0 if none
IndexFrom(text, pat, from) ==
    LET at == {i \in from..(Len(text) - Len(pat) + 1) :
                 /\ text[i] = pat[1]
                 /\ SubSeq(text, i, i + Len(pat) - 1) = pat}
    IN IF at = {} THEN 0 ELSE CHOOSE i \in at : \A j \in at : i <= j

\* obj[k] = v on the object a parser builds: an own property in any case
Define(obj, k, v) ==
    IF HasKey(obj, k)
    THEN [i \in 1..Len(obj) |->
            IF obj[i].key = k THEN [key |-> k, value |-> v] ELSE obj[i]]
    ELSE Append(obj, [key |-> k, value |-> v])

\* the Post Record an object with the six properties stands for
AsRecord(obj) ==
    [slug |-> Get(obj, K_slug),
     title |-> Get(obj, K_title),
     date |-> Get(obj, K_date),
     excerpt |-> Get(obj, K_excerpt),
     content |-> Get(obj, K_content),
     frontmatter |-> Get(obj, K_frontmatter)]

\* the value of the text of an array of objects whose properties are
\* strings or objects of strings, one token group per line as
\* JSON.stringify(list, null, 2) lays it out; white space between tokens
\* does not count
ParseArray(t) ==
    LET lines == Split(t, NL)
        RECURSIVE go(_, _, _, _, _)
        \* acc: the finished elements; cur: the object being read;
        \* fm: the nested object being read when inFm
        go(i, acc, cur, fm, inFm) ==
            IF i > Len(lines) THEN acc
            ELSE
              LET l == TrimStart(lines[i])
              IN IF l \in {<<"[">>, <<"]">>, <<"[", "]">>} THEN go(i + 1, acc, cur, fm, inFm)
                 ELSE IF l = <<"{">> THEN go(i + 1, acc, EmptyObject, fm, FALSE)
                 ELSE IF l \in {<<"}">>, <<"}", COMMA>>}
                 THEN IF inFm
                      THEN go(i + 1, acc, Define(cur, K_frontmatter, fm), fm, FALSE)
                      ELSE go(i + 1, Append(acc, AsRecord(cur)), cur, fm, FALSE)
                 ELSE
                   LET keyEnd == LiteralEnd(l)
                       key == Unquote(SubSeq(l, 1, keyEnd))
                       rest == SubSeq(l, keyEnd + 3, Len(l))
                   IN IF rest = <<"{">> THEN go(i + 1, acc, cur, EmptyObject, TRUE)
                      ELSE IF rest \in {<<"{", "}">>, <<"{", "}", COMMA>>}
                      THEN go(i + 1, acc, Define(cur, key, EmptyObject), fm, inFm)
                      ELSE
                        LET value == Unquote(SubSeq(rest, 1, LiteralEnd(rest)))
                        IN IF inFm
                           THEN go(i + 1, acc, cur, Define(fm, key, value), inFm)
                           ELSE go(i + 1, acc, Define(cur, key, value), fm, inFm)
    IN go(1, <<>>, EmptyObject, EmptyObject, FALSE)

NoMatch == [found |-> FALSE, text |-> <<>>]

\* postsContent.match(/export const posts = (\[[\s\S]*?\n\])/m): the first
\* capture group, from the '[' after the declaration to the first ']' that
\* starts a line after it
MatchPosts(postsContent) ==
    LET open == PostsDecl \o <<"[">>
        start == IndexFrom(postsContent, open, 1)
        close == IF start = 0 THEN 0
                 ELSE IndexFrom(postsContent, <<NL, "]">>, start + Len(open))
    IN IF start = 0 \/ close = 0 THEN NoMatch
       ELSE [found |-> TRUE,
             text |-> SubSeq(postsContent, start + Len(PostsDecl), close + 1)]

\* getPosts() of generate-pages.js on the text of the data module: the
\* list, or the error 'Could not parse posts from posts.js'
getPosts(postsContent) ==
    LET match == MatchPosts(postsContent)
    IN IF ~match.found THEN [threw |-> TRUE, list |-> <<>>]
       ELSE [threw |-> FALSE, list |-> ParseArray(match.text)]

\* the array the declaration `export const posts = [...]` of the module
\* text evaluates to when the module is loaded
LoadPosts(moduleText) ==
    LET start == IndexFrom(moduleText, PostsDecl, 1) + Len(PostsDecl)
        close == IndexFrom(moduleText, <<NL, "]">>, start)
    IN IF SubSeq(moduleText, start, start + 1) = <<"[", "]">> THEN <<>>
       ELSE ParseArray(SubSeq(moduleText, start, close + 1))

\* getPost(slug) of the loaded module: posts.find(post => post.slug === slug)
getPost(list, slug) ==
    LET at == {i \in 1..Len(list) : list[i].slug = slug}
    IN IF at = {} THEN [found |-> FALSE, post |-> <<>>]
       ELSE [found |-> TRUE, post |-> list[CHOOSE i \in at : \A j \in at : i <= j]]

\* getAllPosts() of the loaded module
getAllPosts(list) == list

(***************************************************************************)
(* The posts directory of a build, and the steps of buildPosts.            *)
(***************************************************************************)
MaxFiles == 3

D_2025_11_26 == <<"2", "0", "2", "5", DASH, "1", "1", DASH, "2", "6">>
D_2025_01_15 == <<"2", "0", "2", "5", DASH, "0", "1", DASH, "1", "5">>
D_2026_02_14 == <<"2", "0", "2", "6", DASH, "0", "2", DASH, "1", "4">>
D_soon == <<"s", "o", "o", "n">>

\* a line `key: value`
Field(key, value) == key \o <<COLON, SP>> \o value

\* a body line longer than the excerpt: 120 times x, then yy
LongLine == [i \in 1..(ExcerptLen + 2) |-> IF i <= ExcerptLen THEN "x" ELSE "y"]

DocPool ==
    { \* every field present
      Join(<<DELIM, Field(K_title, <<"T">>), Field(K_date, D_2025_11_26),
             Field(K_excerpt, <<"E">>), DELIM, <<"h", "i">>, <<"y", "o">>>>, NL),
      \* empty title, empty quoted excerpt, body with blank lines around a long line
      Join(<<DELIM, K_title \o <<COLON>>, Field(K_date, D_2025_01_15),
             Field(K_excerpt, <<DQ, DQ>>), DELIM, <<>>, LongLine, <<SP, "t", SP>>, <<>>>>, NL),
      \* a date that is no date, a body with a quote, a backslash and a tab
      Join(<<DELIM, Field(K_date, D_soon), DELIM,
             <<"s", DQ, "h", BS, "o", TAB, "r", "t">>>>, NL),
      \* no block, whitespace at both ends
      Join(<<<<SP, "p", "l", "a", "i", "n", SP>>, <<>>>>, NL),
      \* opening delimiter without a closing one
      Join(<<DELIM, Field(K_title, <<"T">>), <<"b", "o", "d", "y">>>>, NL),
      \* a quoted title only, no date, empty body
      Join(<<DELIM, Field(K_title, <<DQ, "Q", DQ>>), DELIM, <<>>>>, NL),
      \* a date only, the date of the first document
      Join(<<DELIM, Field(K_date, D_2025_11_26), DELIM, <<"x">>>>, NL) }

\* two ordinary names, the name that is only the extension, and a name
\* with another extension
NamePool ==
    { <<"a">> \o MD, <<"b">> \o MD, MD, <<"n", ".", "t", "x", "t">> }

TodayPool == { D_2025_11_26, D_2026_02_14 }

\* a directory: up to MaxFiles files, each name once, each with a text
Directories ==
    UNION { [names -> DocPool] :
              names \in {S \in SUBSET NamePool : Cardinality(S) <= MaxFiles} }

\* fs.readdirSync(POSTS_DIR): the names of the directory, in an order the
\* file system chooses
Listings(d) ==
    { l \in [1..Cardinality(DOMAIN d) -> DOMAIN d] :
        \A i, j \in 1..Cardinality(DOMAIN d) : l[i] = l[j] => i = j }

\* fs.readFileSync(path.join(POSTS_DIR, file), 'utf-8')
ReadFile(d, file) == d[file]

InitBuild ==
    /\ disk \in Directories
    /\ today \in TodayPool
    /\ pc = "start"
    /\ files = <<>>
    /\ posts = <<>>
    /\ outFile = <<>>
    /\ exitCode = "none"
    /\ rerun = FALSE
    /\ prevFile = <<>>
    /\ ParseIdle /\ SiteIdle /\ PageIdle /\ AppIdle

\* fs.readdirSync(POSTS_DIR).filter(...).sort()
ListFiles ==
    /\ pc = "start"
    /\ \E listing \in Listings(disk) : files' = SortStrings(FilterMd(listing))
    /\ pc' = "map"
    /\ UNCHANGED <<disk, today, posts, outFile, exitCode, rerun, prevFile>>
    /\ UNCHANGED <<parseVars, siteVars, pageVars, appVars>>

\* fs.readdirSync(POSTS_DIR) throws: the catch block ends the process
ListFails ==
    /\ pc = "start"
    /\ pc' = "failed"
    /\ exitCode' = "1"
    /\ UNCHANGED <<disk, today, files, posts, outFile, rerun, prevFile>>
    /\ UNCHANGED <<parseVars, siteVars, pageVars, appVars>>

\* one call of the files.map callback, for the next file
MapFile ==
    /\ pc = "map"
    /\ Len(posts) < Len(files)
    /\ LET file == files[Len(posts) + 1]
       IN posts' = Append(posts, PostOf(file, ReadFile(disk, file), today))
    /\ UNCHANGED <<disk, today, pc, files, outFile, exitCode, rerun, prevFile>>
    /\ UNCHANGED <<parseVars, siteVars, pageVars, appVars>>

\* the failure of a read handled by writing the records made so far
ReadFailsMutWritesPartial ==
    /\ pc = "map"
    /\ Len(posts) < Len(files)
    /\ pc' = "failed"
    /\ exitCode' = "1"
    /\ outFile' = OutputText(posts)
    /\ UNCHANGED <<disk, today, files, posts, rerun, prevFile>>
    /\ UNCHANGED <<parseVars, siteVars, pageVars, appVars>>

\* fs.readFileSync throws in the files.map callback for the next file: the
\* catch block ends the process
ReadFails ==
    /\ pc = "map"
    /\ Len(posts) < Len(files)
    /\ pc' = "failed"
    /\ exitCode' = "1"
    /\ UNCHANGED <<disk, today, files, posts, outFile, rerun, prevFile>>
    /\ UNCHANGED <<parseVars, siteVars, pageVars, appVars>>

\* posts.sort((a, b) => new Date(b.date) - new Date(a.date))
SortPosts ==
    /\ pc = "map"
    /\ Len(posts) = Len(files)
    /\ \E sorted \in SortOutcomes(posts) : posts' = sorted
    /\ pc' = "sorted"
    /\ UNCHANGED <<disk, today, files, outFile, exitCode, rerun, prevFile>>
    /\ UNCHANGED <<parseVars, siteVars, pageVars, appVars>>

\* fs.writeFileSync(OUTPUT_FILE, output), then the log lines and the end of
\* the process
WriteOutput ==
    /\ pc = "sorted"
    /\ outFile' = OutputText(posts)
    /\ pc' = "written"
    /\ exitCode' = "0"
    /\ UNCHANGED <<disk, today, files, posts, rerun, prevFile>>
    /\ UNCHANGED <<parseVars, siteVars, pageVars, appVars>>

\* build-posts is run once more on the directory as it is, on the same day
\* or a later one
Rerun ==
    /\ pc \in {"written", "failed"}
    /\ ~rerun
    /\ rerun' = TRUE
    /\ prevFile' = outFile
    /\ today' \in {t \in TodayPool : TimeValue(t) >= TimeValue(today)}
    /\ pc' = "start"
    /\ files' = <<>>
    /\ posts' = <<>>
    /\ exitCode' = "none"
    /\ UNCHANGED <<disk, outFile>>
    /\ UNCHANGED <<parseVars, siteVars, pageVars, appVars>>

NextBuild ==
    ListFiles \/ ListFails \/ MapFile \/ ReadFails \/ SortPosts \/ WriteOutput

SpecBuild == InitBuild /\ [][NextBuild]_vars

\* two runs of build-posts, one after the other, on a directory of fewer
\* than MaxFiles files that does not change
InitRebuild == InitBuild /\ Cardinality(DOMAIN disk) < MaxFiles

NextRebuild == NextBuild \/ Rerun

SpecRebuild == InitRebuild /\ [][NextRebuild]_vars

\* one run of build-posts on four files that have nothing but a date, so
\* that equal dates and a date that is no date come together
TieDocPool ==
    { Join(<<DELIM, Field(K_date, D_2025_11_26), DELIM, <<"x">>>>, NL),
      Join(<<DELIM, Field(K_date, D_2025_01_15), DELIM, <<"x">>>>, NL),
      Join(<<DELIM, Field(K_date, D_soon), DELIM, <<"x">>>>, NL) }

TieNamePool ==
    { <<"a">> \o MD, <<"b">> \o MD, <<"c">> \o MD, <<"d">> \o MD }

InitTies ==
    /\ disk \in [TieNamePool -> TieDocPool]
    /\ today \in TodayPool
    /\ pc = "start"
    /\ files = <<>>
    /\ posts = <<>>
    /\ outFile = <<>>
    /\ exitCode = "none"
    /\ rerun = FALSE
    /\ prevFile = <<>>
    /\ ParseIdle /\ SiteIdle /\ PageIdle /\ AppIdle

SpecTies == InitTies /\ [][NextBuild]_vars

(***************************************************************************)
(* createHtmlPage (scripts/generate-pages.js).  String.prototype.replace   *)
(* with a replacement text expands the patterns of that text that start   *)
(* with $, for a regular expression and for a string pattern alike.        *)
(***************************************************************************)
DOLLAR == "$"
AMP == "&"
\* the grave accent U+0060, written by name
BACKTICK == "U+0060"

TITLE_OPEN ==
    <<"<", "t", "i", "t", "l", "e", ">">>
TITLE_CLOSE ==
    <<"<", "/", "t", "i", "t", "l", "e", ">">>
HEAD_CLOSE ==
    <<"<", "/", "h", "e", "a", "d", ">">>
\* ' - Benjamin F. Wilson'
TITLE_SUFFIX ==
    <<SP, DASH, SP, "B", "e", "n", "j", "a", "m", "i", "n", SP, "F", ".",
      SP, "W", "i", "l", "s", "o", "n">>
META_OG_TITLE ==
    <<NL, SP, SP, SP, SP, "<", "m", "e", "t", "a", SP, "p", "r", "o", "p",
      "e", "r", "t", "y", "=", DQ, "o", "g", COLON, "t", "i", "t", "l",
      "e", DQ, SP, "c", "o", "n", "t", "e", "n", "t", "=", DQ>>
META_DESCRIPTION ==
    <<DQ, SP, "/", ">", NL, SP, SP, SP, SP, "<", "m", "e", "t", "a", SP,
      "n", "a", "m", "e", "=", DQ, "d", "e", "s", "c", "r", "i", "p", "t",
      "i", "o", "n", DQ, SP, "c", "o", "n", "t", "e", "n", "t", "=", DQ>>
META_OG_DESCRIPTION ==
    <<DQ, SP, "/", ">", NL, SP, SP, SP, SP, "<", "m", "e", "t", "a", SP,
      "p", "r", "o", "p", "e", "r", "t", "y", "=", DQ, "o", "g", COLON,
      "d", "e", "s", "c", "r", "i", "p", "t", "i", "o", "n", DQ, SP, "c",
      "o", "n", "t", "e", "n", "t", "=", DQ>>
META_END ==
    <<DQ, SP, "/", ">">>
\* '\n  </head>', what follows ${metaTags} in the second replacement text
HEAD_CLOSE_LINE ==
    <<NL, SP, SP, "<", "/", "h", "e", "a", "d", ">">>

\* the characters the `.` of a regular expression does not match
IsLineTerminator(c) == c \in {NL, CR}

\* GetSubstitution: the replacement text with $$ read as $, $& as the
\* matched text, $ and a grave accent as the text before the match, $ and
\* an apostrophe as the text after it; any other $ stands for itself (the
\* patterns have no capture group)
Substitute(replacement, matched, before, after) ==
    LET RECURSIVE go(_)
        go(start) ==
            LET at == IndexFrom(replacement, <<DOLLAR>>, start)
                next == IF at > 0 /\ at < Len(replacement)
                        THEN replacement[at + 1] ELSE ""
                plain == SubSeq(replacement, start, at - 1)
            IN IF at = 0 THEN SubSeq(replacement, start, Len(replacement))
               ELSE IF next = DOLLAR THEN plain \o <<DOLLAR>> \o go(at + 2)
               ELSE IF next = AMP THEN plain \o matched \o go(at + 2)
               ELSE IF next = BACKTICK THEN plain \o before \o go(at + 2)
               ELSE IF next = SQ THEN plain \o after \o go(at + 2)
               ELSE plain \o <<DOLLAR>> \o go(at + 1)
    IN go(1)

NoSpan == [from |-> 0, to |-> 0]

\* the first match of /<title>.*?<\/title>/ in html, as the positions of its
\* first and last character: the leftmost '<title>' that has a '</title>'
\* after it with no line terminator in between, up to the nearest such
\* '</title>'
TitleMatch(html) ==
    LET Closes(i) ==
            {j \in (i + Len(TITLE_OPEN))..(Len(html) - Len(TITLE_CLOSE) + 1) :
                /\ SubSeq(html, j, j + Len(TITLE_CLOSE) - 1) = TITLE_CLOSE
                /\ \A k \in (i + Len(TITLE_OPEN))..(j - 1) : ~IsLineTerminator(html[k])}
        opens == {i \in 1..(Len(html) - Len(TITLE_OPEN) + 1) :
                    /\ SubSeq(html, i, i + Len(TITLE_OPEN) - 1) = TITLE_OPEN
                    /\ Closes(i) # {}}
    IN IF opens = {} THEN NoSpan
       ELSE LET i == CHOOSE a \in opens : \A b \in opens : a <= b
                j == CHOOSE a \in Closes(i) : \A b \in Closes(i) : a <= b
            IN [from |-> i, to |-> j + Len(TITLE_CLOSE) - 1]

\* the first occurrence of the string pattern in html
StringMatch(html, pattern) ==
    LET i == IndexFrom(html, pattern, 1)
    IN IF i = 0 THEN NoSpan ELSE [from |-> i, to |-> i + Len(pattern) - 1]

\* html.replace(pattern, replacement) for the match span: html itself when
\* there is no match
ReplaceSpan(html, span, replacement) ==
    IF span.from = 0 THEN html
    ELSE LET matched == SubSeq(html, span.from, span.to)
             before == SubSeq(html, 1, span.from - 1)
             after == SubSeq(html, span.to + 1, Len(html))
         IN before \o Substitute(replacement, matched, before, after) \o after

\* the template literal metaTags
MetaTags(title, description) ==
    LET shown == IF description # <<>> THEN description ELSE title
    IN META_OG_TITLE \o title \o META_DESCRIPTION \o shown
       \o META_OG_DESCRIPTION \o shown \o META_END

createHtmlPage(html, title, description) ==
    IF title = <<>> THEN html
    ELSE LET titled == ReplaceSpan(html, TitleMatch(html),
                           TITLE_OPEN \o title \o TITLE_SUFFIX \o TITLE_CLOSE)
         IN ReplaceSpan(titled, StringMatch(titled, HEAD_CLOSE),
                        MetaTags(title, description) \o HEAD_CLOSE_LINE)

(***************************************************************************)
(* Calls of createHtmlPage on a few templates, titles and descriptions.    *)
(***************************************************************************)
TemplatePool ==
    { \* a document laid out on several lines
      <<"<", "h", "t", "m", "l", ">", NL, SP, SP, "<", "h", "e", "a", "d",
        ">", NL, SP, SP, SP, SP, "<", "t", "i", "t", "l", "e", ">", "O",
        "l", "d", "<", "/", "t", "i", "t", "l", "e", ">", NL, SP, SP, "<",
        "/", "h", "e", "a", "d", ">", NL, "<", "b", "o", "d", "y", ">",
        "<", "/", "b", "o", "d", "y", ">", "<", "/", "h", "t", "m", "l", ">">>,
      \* the title element on three lines
      <<"<", "h", "e", "a", "d", ">", "<", "t", "i", "t", "l", "e", ">",
        NL, "O", "l", "d", NL, "<", "/", "t", "i", "t", "l", "e", ">", "<",
        "/", "h", "e", "a", "d", ">">>,
      \* one line, a $ in the body
      <<"<", "h", "e", "a", "d", ">", "<", "t", "i", "t", "l", "e", ">",
        "O", "l", "d", "<", "/", "t", "i", "t", "l", "e", ">", "<", "/",
        "h", "e", "a", "d", ">", "<", "p", ">", "$", "1", "<", "/", "p", ">">> }

TitlePool ==
    { <<>>,
      <<"A", "b", "o", "u", "t">>,
      <<"A", "$", "$", "5">>,
      <<"x", DOLLAR, AMP>>,
      <<"x", DOLLAR, SQ>>,
      <<DOLLAR, BACKTICK>>,
      <<"a", "<", "/", "h", "e", "a", "d", ">">> }

DescriptionPool ==
    { <<>>, <<"D">>, <<DOLLAR, DOLLAR>>, <<"a", DQ, "b">> }

InitPage ==
    /\ pageArgs \in [baseHtml : TemplatePool, title : TitlePool,
                     description : DescriptionPool]
    /\ page = <<>>
    /\ pcPage = "call"
    /\ ParseIdle /\ BuildIdle /\ SiteIdle /\ AppIdle

\* one call createHtmlPage(baseHtml, title, description)
CallCreate ==
    /\ pcPage = "call"
    /\ page' = createHtmlPage(pageArgs.baseHtml, pageArgs.title, pageArgs.description)
    /\ pcPage' = "returned"
    /\ UNCHANGED pageArgs
    /\ UNCHANGED <<parseVars, buildVars, siteVars, appVars>>

NextPage == CallCreate

SpecPage == InitPage /\ [][NextPage]_vars

(***************************************************************************)
(* generatePages (scripts/generate-pages.js).  A path under DOCS_DIR is    *)
(* the sequence of its segments; docFiles holds the text of each file and  *)
(* docDirs the directories.                                                *)
(***************************************************************************)
INDEX_HTML ==
    <<"i", "n", "d", "e", "x", ".", "h", "t", "m", "l">>
ABOUT ==
    <<"a", "b", "o", "u", "t">>
POST ==
    <<"p", "o", "s", "t">>
\* 'About'
ABOUT_TITLE ==
    <<"A", "b", "o", "u", "t">>
ABOUT_DESCRIPTION ==
    <<"S", "o", "f", "t", "w", "a", "r", "e", SP, "e", "n", "g", "i", "n",
      "e", "e", "r", SP, "s", "p", "e", "c", "i", "a", "l", "i", "z", "i",
      "n", "g", SP, "i", "n", SP, "p", "r", "o", "g", "r", "a", "m", "m",
      "i", "n", "g", SP, "l", "a", "n", "g", "u", "a", "g", "e", SP, "t",
      "h", "e", "o", "r", "y", SP, "a", "n", "d", SP, "D", "S", "L", SP,
      "d", "e", "v", "e", "l", "o", "p", "m", "e", "n", "t">>

\* path.join(DOCS_DIR, ...segments), relative to DOCS_DIR: empty and '.'
\* segments are dropped, '..' takes the segment before it away
JoinPath(segments) ==
    LET RECURSIVE go(_, _)
        go(i, acc) ==
            IF i > Len(segments) THEN acc
            ELSE IF segments[i] \in {<<>>, <<".">>} THEN go(i + 1, acc)
            ELSE IF segments[i] = <<".", ".">>
            THEN go(i + 1, IF acc = <<>> THEN acc ELSE SubSeq(acc, 1, Len(acc) - 1))
            ELSE go(i + 1, Append(acc, segments[i]))
    IN go(1, <<>>)

\* fs.mkdirSync(dir, { recursive: true }): dir and the directories above it
DirsOf(dir) == {SubSeq(dir, 1, k) : k \in 1..Len(dir)}

\* fs.writeFileSync(path, text)
WriteFile(fs, path, text) ==
    [q \in (DOMAIN fs) \cup {path} |-> IF q = path THEN text ELSE fs[q]]

\* the directory and the file of the page of a post
PostDir(post) == JoinPath(<<POST, post.slug>>)
PostPath(post) == JoinPath(<<POST, post.slug, INDEX_HTML>>)

AboutDir == JoinPath(<<ABOUT>>)
AboutPath == JoinPath(<<ABOUT, INDEX_HTML>>)

\* the first lines of generatePages done after the directories are made
GenStartMutMkdirFirst ==
    /\ gpc = "start"
    /\ docDirs' = docDirs \cup DirsOf(AboutDir)
    /\ IF <<INDEX_HTML>> \notin DOMAIN docFiles \/ outFile = <<>> \/ getPosts(outFile).threw
       THEN gpc' = "failed" /\ gexit' = "1" /\ UNCHANGED <<baseHtml, gposts>>
       ELSE /\ baseHtml' = docFiles[<<INDEX_HTML>>]
            /\ gposts' = getPosts(outFile).list
            /\ gpc' = "about"
            /\ UNCHANGED gexit
    /\ UNCHANGED <<docFiles, gdone, gwrote>>
    /\ UNCHANGED <<parseVars, buildVars, pageVars, appVars>>

\* const baseHtml = getBaseHtml(); const posts = getPosts(): a missing
\* docs/index.html, a missing data module and a data module the pattern
\* does not match each throw, and the uncaught error ends the process
GenStart ==
    /\ gpc = "start"
    /\ IF <<INDEX_HTML>> \notin DOMAIN docFiles \/ outFile = <<>> \/ getPosts(outFile).threw
       THEN gpc' = "failed" /\ gexit' = "1" /\ UNCHANGED <<baseHtml, gposts>>
       ELSE /\ baseHtml' = docFiles[<<INDEX_HTML>>]
            /\ gposts' = getPosts(outFile).list
            /\ gpc' = "about"
            /\ UNCHANGED gexit
    /\ UNCHANGED <<docFiles, docDirs, gdone, gwrote>>
    /\ UNCHANGED <<parseVars, buildVars, pageVars, appVars>>

\* the page for /about: the directory if it is not there, then the file
GenAbout ==
    /\ gpc = "about"
    /\ docDirs' = docDirs \cup DirsOf(AboutDir)
    /\ docFiles' = WriteFile(docFiles, AboutPath,
                       createHtmlPage(baseHtml, ABOUT_TITLE, ABOUT_DESCRIPTION))
    /\ gwrote' = gwrote \cup {AboutPath}
    /\ gpc' = "posts"
    /\ UNCHANGED <<baseHtml, gposts, gdone, gexit>>
    /\ UNCHANGED <<parseVars, buildVars, pageVars, appVars>>

\* mkdirSync or writeFileSync throws for the about page: the uncaught error
\* ends the process, with the directory made when it is the write that fails
GenAboutFails ==
    /\ gpc = "about"
    /\ \/ UNCHANGED docDirs
       \/ docDirs' = docDirs \cup DirsOf(AboutDir)
    /\ gpc' = "failed"
    /\ gexit' = "1"
    /\ UNCHANGED <<docFiles, baseHtml, gposts, gdone, gwrote>>
    /\ UNCHANGED <<parseVars, buildVars, pageVars, appVars>>

\* one turn of `for (const post of posts)`
GenPost ==
    /\ gpc = "posts"
    /\ gdone < Len(gposts)
    /\ LET post == gposts[gdone + 1]
       IN /\ docDirs' = docDirs \cup DirsOf(PostDir(post))
          /\ docFiles' = WriteFile(docFiles, PostPath(post),
                             createHtmlPage(baseHtml, post.title, post.excerpt))
          /\ gwrote' = gwrote \cup {PostPath(post)}
    /\ gdone' = gdone + 1
    /\ UNCHANGED <<gpc, baseHtml, gposts, gexit>>
    /\ UNCHANGED <<parseVars, buildVars, pageVars, appVars>>

\* mkdirSync or writeFileSync throws in a turn of the loop
GenPostFails ==
    /\ gpc = "posts"
    /\ gdone < Len(gposts)
    /\ \/ UNCHANGED docDirs
       \/ docDirs' = docDirs \cup DirsOf(PostDir(gposts[gdone + 1]))
    /\ gpc' = "failed"
    /\ gexit' = "1"
    /\ UNCHANGED <<docFiles, baseHtml, gposts, gdone, gwrote>>
    /\ UNCHANGED <<parseVars, buildVars, pageVars, appVars>>

\* the loop is over: the summary line and the end of the process
GenDone ==
    /\ gpc = "posts"
    /\ gdone = Len(gposts)
    /\ gpc' = "done"
    /\ gexit' = "0"
    /\ UNCHANGED <<docFiles, docDirs, baseHtml, gposts, gdone, gwrote>>
    /\ UNCHANGED <<parseVars, buildVars, pageVars, appVars>>

(***************************************************************************)
(* Rounds of the site build: build-posts, then generate-pages, then an     *)
(* edit of the posts directory and the two scripts once more.              *)
(***************************************************************************)
\* a post whose title has a replacement pattern in it, and a post without
\* metadata
SiteDocPool ==
    { Join(<<DELIM, Field(K_title, <<"A", DOLLAR, DOLLAR, "5">>),
             Field(K_date, D_2025_11_26), DELIM, <<"h", "i">>>>, NL),
      <<"y", "o">> }

SiteNamePool == { <<"a">> \o MD, <<"b">> \o MD }

SiteDirectories == UNION { [names -> SiteDocPool] : names \in SUBSET SiteNamePool }

\* docs/ after `vite build`, and docs/ without it
SiteTemplate ==
    <<"<", "h", "e", "a", "d", ">", "<", "t", "i", "t", "l", "e", ">", "O",
      "l", "d", "<", "/", "t", "i", "t", "l", "e", ">", "<", "/", "h", "e",
      "a", "d", ">">>

InitSite ==
    /\ disk \in SiteDirectories
    /\ today \in TodayPool
    /\ pc = "start"
    /\ files = <<>>
    /\ posts = <<>>
    /\ outFile = <<>>
    /\ exitCode = "none"
    /\ rerun = FALSE
    /\ prevFile = <<>>
    /\ docFiles \in {<<>>, WriteFile(<<>>, <<INDEX_HTML>>, SiteTemplate)}
    /\ docDirs = {}
    /\ gpc = "idle"
    /\ baseHtml = <<>>
    /\ gposts = <<>>
    /\ gdone = 0
    /\ gexit = "none"
    /\ gwrote = {}
    /\ ParseIdle /\ PageIdle /\ AppIdle

\* generate-pages is started after build-posts has ended
StartGenerate ==
    /\ pc \in {"written", "failed"}
    /\ gpc = "idle"
    /\ gpc' = "start"
    /\ UNCHANGED <<docFiles, docDirs, baseHtml, gposts, gdone, gexit, gwrote>>
    /\ UNCHANGED <<parseVars, buildVars, pageVars, appVars>>

\* the posts directory is edited and the next round starts with build-posts
EditPosts ==
    /\ pc \in {"written", "failed"}
    /\ gpc \in {"done", "failed"}
    /\ ~rerun
    /\ disk' \in SiteDirectories
    /\ rerun' = TRUE
    /\ prevFile' = outFile
    /\ pc' = "start"
    /\ files' = <<>>
    /\ posts' = <<>>
    /\ exitCode' = "none"
    /\ gpc' = "idle"
    /\ baseHtml' = <<>>
    /\ gposts' = <<>>
    /\ gdone' = 0
    /\ gexit' = "none"
    /\ gwrote' = {}
    /\ UNCHANGED <<today, outFile, docFiles, docDirs>>
    /\ UNCHANGED <<parseVars, pageVars, appVars>>

NextSite ==
    \/ NextBuild
    \/ StartGenerate \/ GenStart \/ GenAbout \/ GenAboutFails
    \/ GenPost \/ GenPostFails \/ GenDone
    \/ EditPosts

SpecSite == InitSite /\ [][NextSite]_vars

(***************************************************************************)
(* The App that keeps its navigation in component state (src/App.jsx,      *)
(* the listing that imports useState).  The two setState calls of a        *)
(* handler run inside one click handler, so React applies them together    *)
(* and renders once: a handler is one step.                                *)
(***************************************************************************)
\* the pages the two buttons of Header pass to onNavigate
NavPages == { "home", "about" }

\* PostPage({ post, onBack }): the element reads post.date and post.content,
\* which throws a TypeError when post is null
PostPage(post) ==
    IF post = Null THEN [threw |-> TRUE]
    ELSE [threw |-> FALSE, date |-> post.date, content |-> post.content]

\* renderContent() of App: the component the switch on currentPage picks,
\* with the props it is given
renderContent(page_, post, list) ==
    CASE page_ = "about" -> [component |-> "AboutPage"]
      [] page_ = "post" -> [component |-> "PostPage", element |-> PostPage(post)]
      [] OTHER -> [component |-> "HomePage", posts |-> list]

MaxAppPosts == 3

\* the records buildPosts makes of four files with the same document
AppPostPool ==
    { PostOf(file,
             Join(<<DELIM, Field(K_title, <<"T">>), Field(K_date, D_2025_01_15),
                    DELIM, <<"h", "i">>, <<>>, <<"#", SP, "y", "o">>>>, NL),
             D_2025_11_26) : file \in TieNamePool }

\* the lists a data module can hold: up to MaxAppPosts records, each once
AppPostLists ==
    {<<>>} \cup { l \in SeqsUpTo(AppPostPool, MaxAppPosts) :
                    \A i, j \in 1..Len(l) : l[i] = l[j] => i = j }

\* App is mounted: useState('home'), useState(null), and posts is what
\* getAllPosts() returns, the array of the data module
InitApp ==
    /\ \E list \in AppPostLists : appPosts = getAllPosts(list)
    /\ currentPage = "home"
    /\ selectedPost = Null
    /\ pcApp = "mounted"
    /\ ParseIdle /\ BuildIdle /\ SiteIdle /\ PageIdle

\* handleNavigate(page): a click on a button of Header
handleNavigate(page_) ==
    /\ pcApp # "idle"
    /\ currentPage' = page_
    /\ selectedPost' = Null
    /\ pcApp' = "handleNavigate"
    /\ UNCHANGED appPosts
    /\ UNCHANGED <<parseVars, buildVars, siteVars, pageVars>>

\* handleSelectPost(post): a click on a button of the PostCard of post
handleSelectPost(post) ==
    /\ pcApp # "idle"
    /\ selectedPost' = post
    /\ currentPage' = "post"
    /\ pcApp' = "handleSelectPost"
    /\ UNCHANGED appPosts
    /\ UNCHANGED <<parseVars, buildVars, siteVars, pageVars>>

\* handleBackToPosts() without setSelectedPost(null)
handleBackToPostsMutKeepsPost ==
    /\ pcApp # "idle"
    /\ currentPage' = "home"
    /\ pcApp' = "handleBackToPosts"
    /\ UNCHANGED <<appPosts, selectedPost>>
    /\ UNCHANGED <<parseVars, buildVars, siteVars, pageVars>>

\* handleBackToPosts(): a click on the back button of PostPage
handleBackToPosts ==
    /\ pcApp # "idle"
    /\ selectedPost' = Null
    /\ currentPage' = "home"
    /\ pcApp' = "handleBackToPosts"
    /\ UNCHANGED appPosts
    /\ UNCHANGED <<parseVars, buildVars, siteVars, pageVars>>

\* the handlers are taken in every order, also the orders the rendered
\* buttons do not offer
Navigate == \E page_ \in NavPages : handleNavigate(page_)

\* HomePage hands each PostCard one record of posts
SelectPost == \E i \in 1..Len(appPosts) : handleSelectPost(appPosts[i])

NextApp == Navigate \/ SelectPost \/ handleBackToPosts

SpecApp == InitApp /\ [][NextApp]_vars

(***************************************************************************)
(* Vocabulary of the claims about the Post Records, stated on the text of  *)
(* the document a record was made from.                                    *)
(***************************************************************************)
\* the text of the document the record p was made from
DocOf(p) == ReadFile(disk, p.slug \o MD)

\* the document has an opening '---' line and a closing one
HasBlock(text) == FirstLineOf(text) = DELIM /\ HasClosingDelim(text)

\* the text after the line of the closing delimiter
AfterBlock(text) ==
    LET D == {q \in 2..Len(text) : DelimLineAt(text, q)}
        close == CHOOSE q \in D : \A r \in D : q <= r
    IN IF close + 4 <= Len(text) THEN SubSeq(text, close + 4, Len(text)) ELSE <<>>

\* the body of the document: the text without its metadata block
BodyOf(text) == IF HasBlock(text) THEN AfterBlock(text) ELSE text

Sorted == pc \in {"sorted", "written"}

\* C7 as stated: the content of every record, with or without a metadata
\* block in its document, is the body without the block and has no leading
\* or trailing whitespace.
C7_ContentAlwaysTrimmed ==
    \A i \in 1..Len(posts) : IsTrimOf(posts[i].content, BodyOf(DocOf(posts[i])))

\* C7 amended: for a document with an opening and a closing delimiter the
\* content is the text after the closing delimiter without leading or
\* trailing whitespace; for any other document it is the whole text of the
\* document, the whitespace at its ends included.
C7_ContentTrimmedAfterBlock ==
    \A i \in 1..Len(posts) :
        IF HasBlock(DocOf(posts[i]))
        THEN IsTrimOf(posts[i].content, AfterBlock(DocOf(posts[i])))
        ELSE posts[i].content = DocOf(posts[i])

C7_Witness ==
    /\ pc = "written"
    /\ \E i \in 1..Len(posts) :
          /\ HasBlock(DocOf(posts[i]))
          /\ ~NoEdgeWs(AfterBlock(DocOf(posts[i])))
          /\ posts[i].content # <<>>
    /\ \E i \in 1..Len(posts) :
          /\ ~HasBlock(DocOf(posts[i]))
          /\ ~NoEdgeWs(posts[i].content)
    /\ \E i \in 1..Len(posts) :
          /\ ~HasBlock(DocOf(posts[i]))
          /\ FirstLineOf(DocOf(posts[i])) = DELIM

\* C8 as stated: title is the metadata title whenever the metadata has a
\* title key, and the slug only when it has none.
C8_TitleWheneverKeyPresent ==
    \A i \in 1..Len(posts) :
        posts[i].title =
            IF HasKey(posts[i].frontmatter, K_title)
            THEN Get(posts[i].frontmatter, K_title)
            ELSE posts[i].slug

\* C8 amended: title is the metadata title whenever the metadata has a
\* title that is not the empty string, and the slug when the metadata has
\* no title key or an empty title.
C8_TitleWhenNonEmpty ==
    \A i \in 1..Len(posts) :
        LET fm == posts[i].frontmatter
        IN /\ (\E k \in 1..Len(fm) : fm[k].key = K_title /\ fm[k].value # <<>>)
                => \E k \in 1..Len(fm) :
                      fm[k].key = K_title /\ posts[i].title = fm[k].value
           /\ (\A k \in 1..Len(fm) : fm[k].key = K_title => fm[k].value = <<>>)
                => posts[i].title = posts[i].slug

C8_Witness ==
    /\ pc = "written"
    /\ \E i \in 1..Len(posts) :
          /\ HasKey(posts[i].frontmatter, K_title)
          /\ posts[i].title = Get(posts[i].frontmatter, K_title)
          /\ posts[i].title # posts[i].slug
    /\ \E i \in 1..Len(posts) :
          /\ HasKey(posts[i].frontmatter, K_title)
          /\ Get(posts[i].frontmatter, K_title) = <<>>
          /\ posts[i].title = posts[i].slug
    /\ \E i \in 1..Len(posts) :
          /\ ~HasKey(posts[i].frontmatter, K_title)
          /\ posts[i].title = posts[i].slug

\* e is the first line of content cut to at most 120 characters, then '...'
IsDefaultExcerpt(e, content) ==
    LET first == FirstLineOf(content)
        n == IF Len(first) > ExcerptLen THEN ExcerptLen ELSE Len(first)
    IN /\ Len(e) = n + 3
       /\ \A k \in 1..n : e[k] = first[k]
       /\ \A k \in (n + 1)..(n + 3) : e[k] = "."

\* C9 as stated: excerpt is the metadata excerpt when the metadata has one,
\* and otherwise the first line of the body cut to 120 characters, then
\* '...' (also when the line is shorter).
C9_ExcerptWheneverKeyPresent ==
    \A i \in 1..Len(posts) :
        IF HasKey(posts[i].frontmatter, K_excerpt)
        THEN posts[i].excerpt = Get(posts[i].frontmatter, K_excerpt)
        ELSE IsDefaultExcerpt(posts[i].excerpt, posts[i].content)

\* C9 amended: excerpt is the metadata excerpt when the metadata has one
\* that is not the empty string; when the metadata has no excerpt or an
\* empty one, it is the first line of the body cut to at most 120
\* characters, then '...' (also when the line is shorter).
C9_ExcerptWhenNonEmpty ==
    \A i \in 1..Len(posts) :
        LET fm == posts[i].frontmatter
        IN /\ (\E k \in 1..Len(fm) : fm[k].key = K_excerpt /\ fm[k].value # <<>>)
                => \E k \in 1..Len(fm) :
                      fm[k].key = K_excerpt /\ posts[i].excerpt = fm[k].value
           /\ (\A k \in 1..Len(fm) : fm[k].key = K_excerpt => fm[k].value = <<>>)
                => IsDefaultExcerpt(posts[i].excerpt, posts[i].content)

C9_Witness ==
    /\ pc = "written"
    /\ \E i \in 1..Len(posts) :
          /\ HasKey(posts[i].frontmatter, K_excerpt)
          /\ posts[i].excerpt = Get(posts[i].frontmatter, K_excerpt)
          /\ posts[i].excerpt # <<>>
    /\ \E i \in 1..Len(posts) :
          /\ Len(FirstLineOf(posts[i].content)) > ExcerptLen
          /\ Len(posts[i].excerpt) = ExcerptLen + 3
          /\ HasKey(posts[i].frontmatter, K_excerpt)
    /\ \E i \in 1..Len(posts) :
          /\ ~HasKey(posts[i].frontmatter, K_excerpt)
          /\ Len(FirstLineOf(posts[i].content)) < ExcerptLen
          /\ Len(posts[i].excerpt) = Len(FirstLineOf(posts[i].content)) + 3

\* C10 as stated: in the list buildPosts emits no record comes before a
\* record with a later date, whatever the documents and the listing order.
C10_NewestFirst ==
    Sorted
        => \A i, j \in 1..Len(posts) :
              (i < j /\ IsValidDate(posts[i].date) /\ IsValidDate(posts[j].date))
                  => TimeValue(posts[i].date) >= TimeValue(posts[j].date)

\* the names of the markdown files of the posts directory
MdNames == {f \in DOMAIN disk : EndsWith(f, MD)}

\* C11: in every list buildPosts emits, each slug is the name of a markdown
\* file of the directory with its '.md' removed, every such file has its
\* record, and no two records have the same slug.
C11_SlugsUnique ==
    Sorted
        => /\ \A i \in 1..Len(posts) : posts[i].slug \o MD \in MdNames
           /\ \A f \in MdNames : \E i \in 1..Len(posts) : posts[i].slug \o MD = f
           /\ \A i, j \in 1..Len(posts) : i # j => posts[i].slug # posts[j].slug

C11_Witness ==
    /\ pc = "written"
    /\ Len(posts) = MaxFiles
    /\ \E i \in 1..Len(posts) : posts[i].slug = <<>>
    /\ \E i \in 1..Len(posts) : posts[i].slug = <<"a">>
    /\ \A i, j \in 1..Len(posts) : i # j => posts[i].slug # posts[j].slug

\* C12 as stated: a second run of buildPosts on the unchanged directory
\* writes the same text as the first run wrote, also for documents that
\* have no date in their metadata.
C12_SecondRunWritesSameText ==
    (rerun /\ pc = "written" /\ prevFile # <<>>) => outFile = prevFile

\* C14: a run of buildPosts in which the listing or a read fails ends with
\* exit code 1 and leaves the data module as it was before the run; the
\* module changes only in the one write after every file was read, and
\* then holds a record for every markdown file.
C14_FailureWritesNothing ==
    /\ pc = "failed" => (exitCode = "1" /\ outFile = prevFile)
    /\ pc \in {"start", "map", "sorted"} => outFile = prevFile
    /\ outFile # prevFile
          => /\ pc = "written"
             /\ Len(posts) = Cardinality(MdNames)
             /\ Len(LoadPosts(outFile)) = Cardinality(MdNames)

C14_Witness ==
    /\ pc = "failed"
    /\ exitCode = "1"
    /\ rerun
    /\ prevFile # <<>>
    /\ Len(posts) >= 1
    /\ Len(posts) < Len(files)
    /\ outFile = prevFile
    /\ Len(LoadPosts(outFile)) = Len(files)

\* C13: for every record of the list buildPosts serialised, getPost of the
\* loaded module with the record's slug returns a record with the same
\* title, date, excerpt and content, and getAllPosts returns the records in
\* the emitted order.
C13_RoundTrip ==
    pc = "written"
        => LET loaded == LoadPosts(outFile)
           IN /\ Len(getAllPosts(loaded)) = Len(posts)
              /\ \A i \in 1..Len(posts) :
                    /\ getAllPosts(loaded)[i].slug = posts[i].slug
                    /\ LET r == getPost(loaded, posts[i].slug)
                       IN /\ r.found
                          /\ r.post.title = posts[i].title
                          /\ r.post.date = posts[i].date
                          /\ r.post.excerpt = posts[i].excerpt
                          /\ r.post.content = posts[i].content

Has(s, c) == \E k \in 1..Len(s) : s[k] = c

C13_Witness ==
    /\ pc = "written"
    /\ Len(posts) = MaxFiles
    /\ \E i \in 1..Len(posts) :
          /\ Has(posts[i].content, DQ) /\ Has(posts[i].content, BS)
          /\ getPost(LoadPosts(outFile), posts[i].slug).post.content = posts[i].content
    /\ \E i \in 1..Len(posts) :
          /\ Has(posts[i].content, NL)
          /\ getPost(LoadPosts(outFile), posts[i].slug).post.content = posts[i].content
    /\ \E i \in 1..Len(posts) : posts[i].frontmatter = EmptyObject
    /\ \E i \in 1..Len(posts) : Len(posts[i].frontmatter) > 1

\* the positions where pat occurs in text
Occurrences(text, pat) ==
    {i \in 1..(Len(text) - Len(pat) + 1) : SubSeq(text, i, i + Len(pat) - 1) = pat}

\* text has exactly one title element and, after it, exactly one '</head>'
OneTitleOneHead(text) ==
    /\ Cardinality(Occurrences(text, TITLE_OPEN)) = 1
    /\ Cardinality(Occurrences(text, TITLE_CLOSE)) = 1
    /\ Cardinality(Occurrences(text, HEAD_CLOSE)) = 1
    /\ \A i \in Occurrences(text, TITLE_OPEN) : \A j \in Occurrences(text, TITLE_CLOSE) :
          /\ i < j
          /\ \A h \in Occurrences(text, HEAD_CLOSE) : j < h

\* text with its title element reading `title - Benjamin F. Wilson` and the
\* three tags, with the given contents, placed before its '</head>'
WithTitleAndTags(text, title, shown) ==
    LET i == CHOOSE a \in Occurrences(text, TITLE_OPEN) : TRUE
        j == CHOOSE a \in Occurrences(text, TITLE_CLOSE) : TRUE
        h == CHOOSE a \in Occurrences(text, HEAD_CLOSE) : TRUE
    IN SubSeq(text, 1, i - 1)
       \o TITLE_OPEN \o title \o TITLE_SUFFIX \o TITLE_CLOSE
       \o SubSeq(text, j + Len(TITLE_CLOSE), h - 1)
       \o META_OG_TITLE \o title \o META_DESCRIPTION \o shown
       \o META_OG_DESCRIPTION \o shown \o META_END \o HEAD_CLOSE_LINE
       \o SubSeq(text, h + Len(HEAD_CLOSE), Len(text))

\* C17 as stated: for a non-empty title and a template with exactly one
\* title element and one '</head>', the page is the template with its title
\* element reading `title - Benjamin F. Wilson` and, right before '</head>',
\* one og:title tag holding the title and the description and
\* og:description tags holding the description, or the title when there is
\* no description; nothing else is changed.
C17_TitleAndTags ==
    (/\ pcPage = "returned"
     /\ pageArgs.title # <<>>
     /\ OneTitleOneHead(pageArgs.baseHtml))
        => page = WithTitleAndTags(pageArgs.baseHtml, pageArgs.title,
                      IF pageArgs.description # <<>> THEN pageArgs.description
                      ELSE pageArgs.title)

\* the path of the page of a post, as the claims name it:
\* post/<slug>/index.html
PagePathOf(post) == <<POST, post.slug, INDEX_HTML>>

\* C15: when docs/index.html does not exist, generatePages ends with exit
\* code 1 and no file is written and no directory made under docs/.
C15_MissingTemplateWritesNothing ==
    (<<INDEX_HTML>> \notin DOMAIN docFiles)
        => /\ gpc \in {"idle", "start", "failed"}
           /\ gpc = "failed" => gexit = "1"
           /\ docFiles = <<>>
           /\ docDirs = {}
           /\ gwrote = {}

C15_Witness ==
    /\ <<INDEX_HTML>> \notin DOMAIN docFiles
    /\ gpc = "failed"
    /\ gexit = "1"
    /\ rerun
    /\ outFile # <<>>
    /\ Len(LoadPosts(outFile)) > 0
    /\ docFiles = <<>>
    /\ docDirs = {}

\* C16 as stated: a run of generatePages that has ended either wrote the
\* about page and the page of every post, or ended with an error and wrote
\* nothing, whichever step failed.
C16_AllOrNothing ==
    /\ gpc = "done" => gwrote = {AboutPath} \cup {PagePathOf(gposts[i]) : i \in 1..Len(gposts)}
    /\ gpc = "failed" => (gexit = "1" /\ gwrote = {})

\* C18 as stated: a run of generatePages that succeeds on a list of n posts
\* has written n + 1 files, about/index.html and post/<slug>/index.html for
\* each post, each the base template with the title and description of its
\* route (the title and the excerpt of the post).
C18_ArtifactsPerRoute ==
    gpc = "done"
        => /\ Cardinality(gwrote) = Len(gposts) + 1
           /\ gwrote = {AboutPath} \cup {PagePathOf(gposts[i]) : i \in 1..Len(gposts)}
           /\ docFiles[AboutPath] = WithTitleAndTags(baseHtml, ABOUT_TITLE, ABOUT_DESCRIPTION)
           /\ \A i \in 1..Len(gposts) :
                 /\ PagePathOf(gposts[i]) \in DOMAIN docFiles
                 /\ docFiles[PagePathOf(gposts[i])] =
                        WithTitleAndTags(baseHtml, gposts[i].title, gposts[i].excerpt)

\* C19 as stated: after a run of generatePages that succeeds, in any round,
\* the post pages under docs/ are exactly the pages of the posts of the data
\* module; no page of a post removed in an earlier round is left.
C19_NoStalePages ==
    gpc = "done"
        => {q \in DOMAIN docFiles : q[1] = POST}
              = {PagePathOf(LoadPosts(outFile)[i]) : i \in 1..Len(LoadPosts(outFile))}

\* C20 as stated: the list of files is the ascending list of the markdown
\* names whatever order the listing had, and in the emitted list records
\* with equal dates stand in ascending order of their file names.
C20_TiesInNameOrder ==
    /\ pc \in {"map", "sorted", "written"}
          => /\ {files[i] : i \in 1..Len(files)} = MdNames
             /\ \A i, j \in 1..Len(files) : i < j => StrLess(files[i], files[j])
    /\ Sorted
          => \A i, j \in 1..Len(posts) :
                (i < j /\ IsValidDate(posts[i].date) /\ posts[i].date = posts[j].date)
                    => StrLess(posts[i].slug \o MD, posts[j].slug \o MD)

\* C21 as stated: for every list buildPosts writes, the empty list
\* included, getPosts of generate-pages does not throw on the text of the
\* data module and returns a list equal to the written one, record for
\* record and field for field.
C21_GetPostsReadsWhatWasWritten ==
    pc = "written"
        => /\ ~getPosts(outFile).threw
           /\ getPosts(outFile).list = posts

\* C22: in the App that keeps its navigation in state, from ('home', null)
\* and after every sequence of handleNavigate, handleSelectPost and
\* handleBackToPosts, currentPage is 'post' exactly when selectedPost is not
\* null, so the PostPage that is rendered never reads a null post; and after
\* handleNavigate and after handleBackToPosts selectedPost is null.
C22_PostPageHasItsPost ==
    pcApp # "idle"
        => /\ (currentPage = "post") <=> (selectedPost # Null)
           /\ LET shown == renderContent(currentPage, selectedPost, appPosts)
              IN shown.component = "PostPage" => ~shown.element.threw
           /\ pcApp \in {"handleNavigate", "handleBackToPosts"}
                 => selectedPost = Null

\* the back button was clicked in an App that has posts to select, and the
\* list is shown again with no post selected
C22_Witness ==
    /\ pcApp = "handleBackToPosts"
    /\ currentPage = "home"
    /\ selectedPost = Null
    /\ Len(appPosts) > 0
    /\ renderContent(currentPage, selectedPost, appPosts).component = "HomePage"

====
